---- MODULE Spec2Model ----
(***************************************************************************)
(* Model of the Rackspace execution module (salt/_modules/rackspace.py)    *)
(* and state module (salt/_states/rackspace.py).                           *)
(*                                                                         *)
(* The provider account (the pyrax SDK and the Rackspace API behind it) is *)
(* the variable `provider`; every module function is an operator from a    *)
(* provider state to a result record [exc, ret, p, calls] and every state  *)
(* function an operator to an outcome record.  One action is one call of a *)
(* state function or of a module function, carried out completely.         *)
(*                                                                         *)
(* Python values: None of an optional integer is the number None, None of  *)
(* an optional string or boolean is the string "None"; booleans that may   *)
(* be None are the strings "True" / "False".  The interpreter is Python 2  *)
(* (the state module reads e.message), where None < n holds for every      *)
(* integer n.                                                              *)
(*                                                                         *)
(* Two further specifications take single functions apart into their       *)
(* provider requests: SpecRace runs the state function dns_zone_exists in  *)
(* several callers at once (variable `callers`), SpecList runs the loop of *)
(* _dns_zone_list over the provider's pages (variable `listing`).          *)
(***************************************************************************)
EXTENDS Integers, Sequences, FiniteSets, TLC

VARIABLES family, provider, call, callers, listing

vars == <<family, provider, call, callers, listing>>

(***************************************************************************)
(* Python values                                                           *)
(***************************************************************************)
None == -1
NoneStr == "None"

\* Python truth value of an optional integer: None, False and 0 are falsy.
Truthy(x) == x # None /\ x # 0

\* Python 2 ordering, None sorts below every integer.
PyLess(a, b) == IF a = None THEN TRUE ELSE a < b

\* kwargs.get(key, default) on a keyword dictionary.
KwGet(kwargs, key, default) ==
    IF key \in DOMAIN kwargs THEN kwargs[key] ELSE default

(***************************************************************************)
(* Program constants                                                       *)
(***************************************************************************)
MAX_DB_VOLUME_SIZE == 150
MINIMUM_TTL == 300
PAGE_SIZE == 100

\* The literal as Python reads it: 'MX' 'NS' are adjacent string literals
\* and concatenate to 'MXNS'.
VALID_RECORD_TYPES == {"A", "AAAA", "CNAME", "MXNS", "PTR", "SRV", "TXT"}
PRIORITY_RECORD_TYPES == {"MX", "SRV"}

(***************************************************************************)
(* Values the calls are made with                                          *)
(***************************************************************************)
ZoneNames == {"example.com"}
Emails == {"a@example.com", "b@example.com"}
EmailInputs == Emails \cup {NoneStr}
ZoneTtlInputs == {None, 0, 100, 600, 900}

RecordNames == {"host"}
RecordTypeInputs == {"A", "MX", "SRV", "srv"}
DataInputs == {"1.1.1.1", "2.2.2.2"}
RecordTtlInputs == {None, 300}
PriorityInputs == {None, 10}

ContainerNames == {"assets"}
CdnInputs == {NoneStr, "True", "False"}
CdnTtlInputs == {None, 900, 3600}

InstanceNames == {"db1"}
FlavorInputs == {"512MB", "bogus"}
SizeInputs == {100, 150, 151}
DatabaseNames == {"app"}

\* The most records the zone is let grow to.
MaxRecords == 2

\* Concurrent callers of the state function dns_zone_exists.
NumCallers == 2
Callers == 1 .. NumCallers
RaceTtlInputs == {600, 900}

\* The provider's answer to the zone listing: at most MaxPages pages of at
\* most MaxPageLen zones; _dns_zone_list is called at most MaxListCalls
\* times.
MaxPages == 3
MaxPageLen == 2
MaxListCalls == 2

(***************************************************************************)
(* Result records                                                          *)
(***************************************************************************)
NoRet == <<>>
NoCalls == <<>>

\* A module function returned `ret`.
Ok(p, ret, calls) == [exc |-> "none", ret |-> ret, p |-> p, calls |-> calls]

\* A module function raised `exc`.
Raise(p, exc, calls) == [exc |-> exc, ret |-> NoRet, p |-> p, calls |-> calls]

(***************************************************************************)
(* Cloud DNS zones: the provider                                           *)
(***************************************************************************)
\* ttl the provider gives a zone created without one.
ProviderZoneDefaultTtl == 3600

AbsentZone == [present |-> FALSE, emailAddress |-> NoneStr, ttl |-> None]

\* driver.create(name=, emailAddress=, ttl=): the provider needs an email
\* address and enforces its minimum ttl; a name may be taken once.
driver_create(p, name, emailAddress, ttl) ==
    IF \/ p.zones[name].present
       \/ emailAddress = NoneStr
       \/ (ttl # None /\ ttl < MINIMUM_TTL)
    THEN Raise(p, "DomainCreationFailed", <<"driver.create">>)
    ELSE LET dom == [present |-> TRUE, emailAddress |-> emailAddress,
                     ttl |-> IF ttl = None THEN ProviderZoneDefaultTtl ELSE ttl]
         IN Ok([p EXCEPT !.zones[name] = dom], dom, <<"driver.create">>)

\* zone.update(emailAddress=, ttl=, comment=) followed by zone.reload():
\* the SDK leaves out of the request every argument that is None.
zone_update(p, name, emailAddress, ttl) ==
    LET zone == p.zones[name]
        dom == [zone EXCEPT
                  !.emailAddress = IF emailAddress = NoneStr THEN @ ELSE emailAddress,
                  !.ttl = IF ttl = None THEN @ ELSE ttl]
    IN Ok([p EXCEPT !.zones[name] = dom], dom, <<"zone.update">>)

(***************************************************************************)
(* Cloud DNS zones: the execution module                                   *)
(***************************************************************************)
_dns_zone_to_dict(name, zone) ==
    [name |-> name, email |-> zone.emailAddress, ttl |-> zone.ttl]

dns_zone_create(p, name, email_address, ttl) ==
    LET r == IF ~Truthy(ttl)
             THEN driver_create(p, name, email_address, None)
             ELSE driver_create(p, name, email_address, ttl)
    IN IF r.exc # "none" THEN r
       ELSE Ok(r.p, _dns_zone_to_dict(name, r.ret), r.calls)

\* dns_zone_exists without the comparison of ttl and email address.
dns_zone_exists_by_name_only(p, name, kwargs) ==
    p.zones[name].present

\* True, False; NotFound of the lookup is caught and gives False.
dns_zone_exists(p, name, kwargs) ==
    LET zone == p.zones[name] IN
    IF ~zone.present THEN FALSE
    ELSE LET email_address == KwGet(kwargs, "email_address", zone.emailAddress)
             ttl == KwGet(kwargs, "ttl", zone.ttl)
         IN ~(zone.ttl # ttl \/ zone.emailAddress # email_address)

dns_zone_update(p, name, kwargs) ==
    LET zone == p.zones[name] IN
    IF ~zone.present THEN Raise(p, "NotFound", NoCalls)
    ELSE IF {"emailAddress", "ttl"} \cap DOMAIN kwargs = {}
    THEN Raise(p, "TypeError", NoCalls)
    ELSE LET email_address == KwGet(kwargs, "email_address", zone.emailAddress)
             ttl == KwGet(kwargs, "ttl", zone.ttl)
         IN IF PyLess(ttl, MINIMUM_TTL)
            THEN Raise(p, "ValueError", NoCalls)
            ELSE LET r == zone_update(p, name, email_address, ttl)
                 IN Ok(r.p, _dns_zone_to_dict(name, r.ret), r.calls)

(***************************************************************************)
(* Cloud DNS records: the provider                                         *)
(***************************************************************************)
\* str.upper() on the record type strings the model uses.
Upper(t) ==
    CASE t = "a" -> "A"
      [] t = "aaaa" -> "AAAA"
      [] t = "cname" -> "CNAME"
      [] t = "mx" -> "MX"
      [] t = "ns" -> "NS"
      [] t = "ptr" -> "PTR"
      [] t = "srv" -> "SRV"
      [] t = "txt" -> "TXT"
      [] t = "mxns" -> "MXNS"
      [] OTHER -> t

\* ttl the provider gives a record added without one.
ProviderRecordDefaultTtl == 3600

\* The record kinds for which the provider demands a priority.
ProviderPriorityTypes == {"MX", "SRV"}

\* zone.search_records(record_type, name=, data=): the records of the zone
\* of that type and name, and of that data when data is given.
search_records(p, zone_name, record_type, name, data) ==
    {r \in p.records :
        /\ r.zone = zone_name
        /\ r.type = record_type
        /\ r.name = name
        /\ (data # NoneStr => r.data = data)}

\* zone.add_records([record_dict]): the provider files the type in upper
\* case, refuses a second record of the same name, type and data and a
\* priority-bearing record without priority, and keeps a priority only on
\* the kinds that bear one.
add_records(p, zone_name, record_dict) ==
    LET type == Upper(record_dict.type)
        record ==
            [zone |-> zone_name, name |-> record_dict.name, type |-> type,
             data |-> record_dict.data,
             ttl |-> KwGet(record_dict, "ttl", ProviderRecordDefaultTtl),
             priority |-> IF type \in ProviderPriorityTypes
                          THEN KwGet(record_dict, "priority", None)
                          ELSE None]
    IN IF \/ search_records(p, zone_name, type, record.name, record.data) # {}
          \/ (type \in ProviderPriorityTypes /\ record.priority = None)
       THEN Raise(p, "DomainRecordAdditionFailed", <<"add_records">>)
       ELSE Ok([p EXCEPT !.records = @ \cup {record}], record,
               <<"add_records">>)

\* record.update(data=, priority=, ttl=, comment=): the SDK leaves out of
\* the request every argument that is None.
record_update(p, record, data, priority, ttl) ==
    LET new == [record EXCEPT
                  !.data = IF data = NoneStr THEN @ ELSE data,
                  !.ttl = IF ttl = None THEN @ ELSE ttl,
                  !.priority = IF priority = None
                                  \/ record.type \notin ProviderPriorityTypes
                               THEN @ ELSE priority]
    IN Ok([p EXCEPT !.records = (@ \ {record}) \cup {new}], new,
          <<"record.update">>)

(***************************************************************************)
(* Cloud DNS records: the execution module                                 *)
(***************************************************************************)
_dns_is_valid_record_type(record_type) ==
    Upper(record_type) \in VALID_RECORD_TYPES

_dns_record_to_dict(record) ==
    [name |-> record.name, data |-> record.data, type |-> record.type,
     ttl |-> record.ttl]

\* A lookup that settles on one of several matches instead of raising.
_dns_record_get_by_name_any_match(p, name, zone_name, record_type, data, allow_multiple_records) ==
    IF ~p.zones[zone_name].present THEN Raise(p, "NotFound", NoCalls)
    ELSE IF ~_dns_is_valid_record_type(record_type)
    THEN Raise(p, "TypeError", NoCalls)
    ELSE LET records == search_records(p, zone_name, Upper(record_type),
                                       name, data)
         IN IF allow_multiple_records THEN Ok(p, records, NoCalls)
            ELSE IF records = {}
            THEN Raise(p, "DomainRecordNotFound", NoCalls)
            ELSE Ok(p, {CHOOSE r \in records : TRUE}, NoCalls)

\* The list of matching records (here their set), or the exception: a
\* missing zone, an invalid type, and with allow_multiple_records False no
\* match or more than one.
_dns_record_get_by_name(p, name, zone_name, record_type, data, allow_multiple_records) ==
    IF ~p.zones[zone_name].present THEN Raise(p, "NotFound", NoCalls)
    ELSE IF ~_dns_is_valid_record_type(record_type)
    THEN Raise(p, "TypeError", NoCalls)
    ELSE LET records == search_records(p, zone_name, Upper(record_type),
                                       name, data)
         IN IF allow_multiple_records THEN Ok(p, records, NoCalls)
            ELSE IF records = {}
            THEN Raise(p, "DomainRecordNotFound", NoCalls)
            ELSE IF Cardinality(records) > 1
            THEN Raise(p, "DomainRecordNotUnique", NoCalls)
            ELSE Ok(p, records, NoCalls)

dns_record_create(p, name, zone_name, record_type, data, ttl, priority) ==
    IF ~_dns_is_valid_record_type(record_type)
    THEN Raise(p, "TypeError", NoCalls)
    ELSE LET base == [type |-> record_type, name |-> name, data |-> data]
             with_ttl == IF Truthy(ttl) THEN [ttl |-> ttl] ELSE <<>>
         IN IF record_type \in PRIORITY_RECORD_TYPES /\ priority = None
            THEN Raise(p, "ValueError", NoCalls)
            ELSE LET with_priority ==
                         IF record_type \in PRIORITY_RECORD_TYPES
                         THEN [priority |-> priority] ELSE <<>>
                     record_dict == base @@ with_ttl @@ with_priority
                 IN IF ~p.zones[zone_name].present
                    THEN Raise(p, "NotFound", NoCalls)
                    ELSE LET r == add_records(p, zone_name, record_dict)
                         IN IF r.exc # "none" THEN r
                            ELSE Ok(r.p, <<_dns_record_to_dict(r.ret)>>,
                                    r.calls)

\* ret is True or False; an exception other than NotFound leaves the call.
dns_record_exists(p, name, zone_name, record_type, data, ttl, priority) ==
    LET r == _dns_record_get_by_name(p, name, zone_name, record_type, data,
                                     TRUE)
    IN IF r.exc = "NotFound" THEN Ok(p, FALSE, NoCalls)
       ELSE IF r.exc # "none" THEN r
       ELSE Ok(p,
               \E record \in r.ret :
                  /\ (Truthy(ttl) => record.ttl = ttl)
                  /\ (Truthy(priority)
                        /\ record_type \in PRIORITY_RECORD_TYPES
                      => record.priority = priority),
               NoCalls)

\* The record is looked up by name and type alone; the dictionary returned
\* is built from the record object as it was found (it is not reloaded).
dns_record_update(p, name, zone_name, record_type, data, ttl, priority) ==
    LET r == _dns_record_get_by_name(p, name, zone_name, record_type,
                                     NoneStr, FALSE)
    IN IF r.exc # "none" THEN r
       ELSE LET record == CHOOSE x \in r.ret : TRUE
                u == record_update(p, record, data, priority, ttl)
            IN Ok(u.p, _dns_record_to_dict(record), u.calls)

\* The lookup returns a list; list has no delete(), so the call ends in an
\* AttributeError unless the lookup raised first.
dns_record_delete(p, name, zone_name, record_type) ==
    LET r == _dns_record_get_by_name(p, name, zone_name, record_type,
                                     NoneStr, TRUE)
    IN IF r.exc # "none" THEN r
       ELSE Raise(p, "AttributeError", NoCalls)

(***************************************************************************)
(* Cloud Files containers: the provider                                    *)
(***************************************************************************)
\* cdn_ttl of a container that was given none.
ProviderCdnDefaultTtl == 86400

AbsentContainer ==
    [present |-> FALSE, cdn_enabled |-> "False",
     cdn_ttl |-> ProviderCdnDefaultTtl]

\* driver.create_container(name): a new container is private.
create_container(p, name) ==
    LET container == IF p.containers[name].present THEN p.containers[name]
                     ELSE [AbsentContainer EXCEPT !.present = TRUE]
    IN Ok([p EXCEPT !.containers[name] = container], container,
          <<"create_container">>)

\* container.make_public(ttl=): a ttl that is None leaves the ttl alone.
make_public(p, name, ttl) ==
    LET container == [p.containers[name] EXCEPT
                        !.cdn_enabled = "True",
                        !.cdn_ttl = IF ttl = None THEN @ ELSE ttl]
    IN Ok([p EXCEPT !.containers[name] = container], container,
          <<"make_public">>)

\* container.make_private()
make_private(p, name) ==
    LET container == [p.containers[name] EXCEPT !.cdn_enabled = "False"]
    IN Ok([p EXCEPT !.containers[name] = container], container,
          <<"make_private">>)

(***************************************************************************)
(* Cloud Files containers: the execution module                            *)
(***************************************************************************)
_cf_container_to_dict(name, container) ==
    [name |-> name, cdn_enabled |-> container.cdn_enabled,
     cdn_ttl |-> container.cdn_ttl]

\* True, False; NoSuchContainer of the lookup is caught and gives False.
cf_container_exists(p, name, cdn_enabled, ttl) ==
    LET container == p.containers[name] IN
    IF ~container.present THEN FALSE
    ELSE IF cdn_enabled # NoneStr /\ cdn_enabled # container.cdn_enabled
    THEN FALSE
    ELSE IF ttl # None /\ ttl # container.cdn_ttl
    THEN FALSE
    ELSE TRUE

\* The container object when it stays private; with cdn_enabled the name
\* `container` is rebound to what _cf_container_make_public returns, True.
_cf_container_create(p, name, cdn_enabled, ttl) ==
    LET c == create_container(p, name) IN
    IF cdn_enabled # NoneStr /\ cdn_enabled = "True"
    THEN LET m == make_public(c.p, name, ttl)
         IN Ok(m.p, [type |-> "bool"], c.calls \o m.calls)
    ELSE Ok(c.p, [type |-> "Container", container |-> c.ret], c.calls)

\* _cf_container_to_dict reads container.name: an AttributeError on True.
cf_container_create(p, name, cdn_enabled, ttl) ==
    LET r == _cf_container_create(p, name, cdn_enabled, ttl) IN
    IF r.ret.type # "Container"
    THEN Raise(r.p, "AttributeError", r.calls)
    ELSE Ok(r.p, _cf_container_to_dict(name, r.ret.container), r.calls)

cf_container_update(p, name, cdn_enabled, ttl) ==
    IF ~p.containers[name].present THEN Raise(p, "NoSuchContainer", NoCalls)
    ELSE LET r == IF cdn_enabled = "True"
                  THEN make_public(p, name, ttl)
                  ELSE make_private(p, name)
         IN Ok(r.p, _cf_container_to_dict(name, r.ret), r.calls)

(***************************************************************************)
(* Cloud Databases: the provider                                           *)
(***************************************************************************)
Flavors == {"512MB"}

AbsentInstance ==
    [present |-> FALSE, flavor |-> NoneStr, volume |-> None,
     status |-> NoneStr]

\* driver.create(name, flavor=, volume=) and pyrax.utils.wait_until(...,
\* "status", "ACTIVE", attempts=TIMEOUT): the instance is built when the
\* wait ends (active) or the wait runs out first.
db_driver_create(p, name, flavor, volume, active) ==
    LET instance == [present |-> TRUE, flavor |-> flavor, volume |-> volume,
                     status |-> IF active THEN "ACTIVE" ELSE "BUILD"]
    IN Ok([p EXCEPT !.instances[name] = instance], instance,
          <<"db.create">>)

\* instance.create_database(name, character_set, collate): refused while
\* the instance is building and for a name already there.
create_database(p, instance_name, name) ==
    IF \/ p.instances[instance_name].status # "ACTIVE"
       \/ <<instance_name, name>> \in p.databases
    THEN Raise(p, "ClientException", <<"create_database">>)
    ELSE Ok([p EXCEPT !.databases = @ \cup {<<instance_name, name>>}],
            [name |-> name], <<"create_database">>)

(***************************************************************************)
(* Cloud Databases: the execution module                                   *)
(***************************************************************************)
_db_instance_to_dict(name, instance) ==
    [name |-> name, status |-> instance.status, flavor |-> instance.flavor]

db_flavor_exists(name) == name \in Flavors

db_instance_exists(p, name) == p.instances[name].present

db_instance_create(p, name, flavor, size, active) ==
    IF db_instance_exists(p, name) THEN Raise(p, "ValueError", NoCalls)
    ELSE IF size > MAX_DB_VOLUME_SIZE THEN Raise(p, "ValueError", NoCalls)
    ELSE IF ~db_flavor_exists(flavor) THEN Raise(p, "ValueError", NoCalls)
    ELSE LET r == db_driver_create(p, name, flavor, size, active)
         IN Ok(r.p, _db_instance_to_dict(name, r.ret), r.calls)

\* _db_instance_get_by_name gives None for a missing instance, and
\* None.get_database is an AttributeError; an instance that is building
\* answers with a ClientException.
db_database_exists(p, name, instance_name) ==
    LET instance == p.instances[instance_name] IN
    IF ~instance.present THEN Raise(p, "AttributeError", NoCalls)
    ELSE IF instance.status # "ACTIVE"
    THEN Raise(p, "ClientException", NoCalls)
    ELSE Ok(p, <<instance_name, name>> \in p.databases, NoCalls)

\* An instance found building is waited for first (`active`: it got there).
db_database_create(p, name, instance_name, active) ==
    LET instance == p.instances[instance_name] IN
    IF ~instance.present THEN Raise(p, "AttributeError", NoCalls)
    ELSE LET q == IF instance.status = "BUILD" /\ active
                  THEN [p EXCEPT !.instances[instance_name].status = "ACTIVE"]
                  ELSE p
         IN create_database(q, instance_name, name)

(***************************************************************************)
(* The state module: outcomes                                              *)
(***************************************************************************)
NoChanges == <<>>

\* What a call of a state function came to: the returned dictionary
\* (result, comment, changes) or the exception that left it, the provider
\* it leaves, the mutating accessor calls (acc) and provider calls made,
\* and what the existence checks answered ("-" is a check not made).
Outcome(raised, result, comment, changes, p, acc, calls, full, base) ==
    [raised |-> raised, result |-> result, comment |-> comment,
     changes |-> changes, p |-> p, acc |-> acc, calls |-> calls,
     fullExists |-> full, baseExists |-> base]

Returned(result, comment, changes, p, acc, calls, full, base) ==
    Outcome("none", result, comment, changes, p, acc, calls, full, base)

Raised(exc, p, acc, calls, full, base) ==
    Outcome(exc, "raised", "", NoChanges, p, acc, calls, full, base)

(***************************************************************************)
(* The state module: dns_zone_exists                                       *)
(***************************************************************************)
\* dns_zone_exists with the result of the update filed under 'new'.
state_dns_zone_exists_update_as_new(p, name, email_address, ttl, test) ==
    LET kwargs == [email_address |-> email_address, ttl |-> ttl]
        does_exist == dns_zone_exists(p, name, kwargs)
    IN
    IF does_exist
    THEN Returned("True", "exists", NoChanges, p, <<>>, <<>>, "True", "-")
    ELSE IF test
    THEN Returned("None", "set to be created", NoChanges, p, <<>>, <<>>,
                  "False", "-")
    ELSE LET base_zone_exists == dns_zone_exists(p, name, <<>>) IN
         IF ~base_zone_exists
         THEN LET r == dns_zone_create(p, name, email_address, ttl) IN
              IF r.exc # "none"
              THEN Raised(r.exc, r.p, <<"dns_zone_create">>, r.calls,
                          "False", "False")
              ELSE Returned("True", "", [new |-> r.ret], r.p,
                            <<"dns_zone_create">>, r.calls, "False", "False")
         ELSE LET r == dns_zone_update(p, name, kwargs) IN
              IF r.exc # "none"
              THEN Raised(r.exc, r.p, <<"dns_zone_update">>, r.calls,
                          "False", "True")
              ELSE Returned("True", "", [new |-> r.ret], r.p,
                            <<"dns_zone_update">>, r.calls, "False", "True")

state_dns_zone_exists(p, name, email_address, ttl, test) ==
    LET kwargs == [email_address |-> email_address, ttl |-> ttl]
        does_exist == dns_zone_exists(p, name, kwargs)
    IN
    IF does_exist
    THEN Returned("True", "exists", NoChanges, p, <<>>, <<>>, "True", "-")
    ELSE IF test
    THEN Returned("None", "set to be created", NoChanges, p, <<>>, <<>>,
                  "False", "-")
    ELSE LET base_zone_exists == dns_zone_exists(p, name, <<>>) IN
         IF ~base_zone_exists
         THEN LET r == dns_zone_create(p, name, email_address, ttl) IN
              IF r.exc # "none"
              THEN Raised(r.exc, r.p, <<"dns_zone_create">>, r.calls,
                          "False", "False")
              ELSE Returned("True", "", [new |-> r.ret], r.p,
                            <<"dns_zone_create">>, r.calls, "False", "False")
         ELSE LET r == dns_zone_update(p, name, kwargs) IN
              IF r.exc # "none"
              THEN Raised(r.exc, r.p, <<"dns_zone_update">>, r.calls,
                          "False", "True")
              ELSE Returned("True", "", [updated |-> r.ret], r.p,
                            <<"dns_zone_update">>, r.calls, "False", "True")

(***************************************************************************)
(* The state module: dns_record_exists                                     *)
(***************************************************************************)
state_dns_record_exists(p, name, zone_name, record_type, data, ttl, priority, allow_multiple_records, test) ==
    LET does_exist == dns_record_exists(p, name, zone_name, record_type, data,
                                        ttl, priority)
        \* ttl and priority take the defaults of the module function, False
        base_record_exists == dns_record_exists(p, name, zone_name,
                                                record_type, NoneStr, 0, 0)
        needs_updating == dns_record_exists(p, name, zone_name, record_type,
                                            data, 0, 0)
        \* the ttl argument of the create call is the literal 600
        created == dns_record_create(p, name, zone_name, record_type, data,
                                     600, priority)
        updated == dns_record_update(p, name, zone_name, record_type, data,
                                     ttl, priority)
        Create(base) ==
            IF created.exc # "none"
            THEN Raised(created.exc, created.p, <<"dns_record_create">>,
                        created.calls, "False", base)
            ELSE Returned("True", "", [new |-> created.ret], created.p,
                          <<"dns_record_create">>, created.calls, "False",
                          base)
        Update ==
            IF updated.exc # "none"
            THEN Raised(updated.exc, updated.p, <<"dns_record_update">>,
                        updated.calls, "False", "True")
            ELSE Returned("True", "", [updated |-> updated.ret], updated.p,
                          <<"dns_record_update">>, updated.calls, "False",
                          "True")
    IN
    IF does_exist.exc # "none"
    THEN Raised(does_exist.exc, p, <<>>, <<>>, "error", "-")
    ELSE IF does_exist.ret
    THEN Returned("True", "exists", NoChanges, p, <<>>, <<>>, "True", "-")
    ELSE IF test
    THEN Returned("None", "set to be created/updated", NoChanges, p, <<>>,
                  <<>>, "False", "-")
    ELSE IF base_record_exists.exc # "none"
    THEN Raised(base_record_exists.exc, p, <<>>, <<>>, "False", "error")
    ELSE IF ~base_record_exists.ret
    THEN Create("False")
    ELSE IF needs_updating.exc # "none"
    THEN Raised(needs_updating.exc, p, <<>>, <<>>, "False", "True")
    ELSE IF needs_updating.ret
    THEN Update
    ELSE IF allow_multiple_records
    THEN Create("True")
    ELSE Update

(***************************************************************************)
(* The state module: cf_container_exists                                   *)
(***************************************************************************)
state_cf_container_exists(p, name, cdn_enabled, ttl, test) ==
    LET does_exist == cf_container_exists(p, name, cdn_enabled, ttl) IN
    IF does_exist
    THEN Returned("True", "exists", NoChanges, p, <<>>, <<>>, "True", "-")
    ELSE IF test
    THEN Returned("None", "set to be created/updated", NoChanges, p, <<>>,
                  <<>>, "False", "-")
    ELSE LET base_exists == cf_container_exists(p, name, NoneStr, None) IN
         IF ~base_exists
         THEN LET r == cf_container_create(p, name, cdn_enabled, ttl) IN
              IF r.exc # "none"
              THEN Raised(r.exc, r.p, <<"cf_container_create">>, r.calls,
                          "False", "False")
              ELSE Returned("True", "", [new |-> r.ret], r.p,
                            <<"cf_container_create">>, r.calls, "False",
                            "False")
         ELSE LET r == cf_container_update(p, name, cdn_enabled, ttl) IN
              IF r.exc # "none"
              THEN Raised(r.exc, r.p, <<"cf_container_update">>, r.calls,
                          "False", "True")
              ELSE Returned("True", "", [updated |-> r.ret], r.p,
                            <<"cf_container_update">>, r.calls, "False",
                            "True")

(***************************************************************************)
(* The state module: db_instance_exists, db_database_exists                *)
(***************************************************************************)
\* db_instance_exists whose dry-run branch lacks its `return ret`.
state_db_instance_exists_no_return(p, name, flavor, size, test, active) ==
    LET does_exist == db_instance_exists(p, name)
        result == IF test THEN "None" ELSE "True"
    IN
    IF does_exist
    THEN Returned("True", "exists", NoChanges, p, <<>>, <<>>, "True", "-")
    ELSE LET r == db_instance_create(p, name, flavor, size, active) IN
         IF r.exc = "ValueError"
         THEN Returned("False", "Unable to create", NoChanges, r.p,
                       <<"db_instance_create">>, r.calls, "False", "-")
         ELSE IF r.exc # "none"
         THEN Raised(r.exc, r.p, <<"db_instance_create">>, r.calls,
                     "False", "-")
         ELSE Returned(result, "", [new |-> r.ret], r.p,
                       <<"db_instance_create">>, r.calls, "False", "-")

\* ValueError of the create call is caught and reported.
state_db_instance_exists(p, name, flavor, size, test, active) ==
    LET does_exist == db_instance_exists(p, name) IN
    IF does_exist
    THEN Returned("True", "exists", NoChanges, p, <<>>, <<>>, "True", "-")
    ELSE IF test
    THEN Returned("None", "set to be created", NoChanges, p, <<>>, <<>>,
                  "False", "-")
    ELSE LET r == db_instance_create(p, name, flavor, size, active) IN
         IF r.exc = "ValueError"
         THEN Returned("False", "Unable to create", NoChanges, r.p,
                       <<"db_instance_create">>, r.calls, "False", "-")
         ELSE IF r.exc # "none"
         THEN Raised(r.exc, r.p, <<"db_instance_create">>, r.calls,
                     "False", "-")
         ELSE Returned("True", "", [new |-> r.ret], r.p,
                       <<"db_instance_create">>, r.calls, "False", "-")

\* ClientException of the existence check is caught and reported.
state_db_database_exists(p, name, instance_name, test, active) ==
    LET does_exist == db_database_exists(p, name, instance_name) IN
    IF does_exist.exc = "ClientException"
    THEN Returned("False", "Instance is not ready", NoChanges, p, <<>>, <<>>,
                  "error", "-")
    ELSE IF does_exist.exc # "none"
    THEN Raised(does_exist.exc, p, <<>>, <<>>, "error", "-")
    ELSE IF does_exist.ret
    THEN Returned("True", "exists", NoChanges, p, <<>>, <<>>, "True", "-")
    ELSE IF test
    THEN Returned("None", "set to be created", NoChanges, p, <<>>, <<>>,
                  "False", "-")
    ELSE LET r == db_database_create(p, name, instance_name, active) IN
         IF r.exc # "none"
         THEN Raised(r.exc, r.p, <<"db_database_create">>, r.calls,
                     "False", "-")
         ELSE Returned("True", "", [new |-> r.ret], r.p,
                       <<"db_database_create">>, r.calls, "False", "-")

(***************************************************************************)
(* State                                                                   *)
(***************************************************************************)
\* The services of the account; a run works on one of them, for the
\* records either through the state function or through the module's
\* functions called on their own.
Families == {"dns_zone", "dns_record", "dns_record_module", "cf", "db"}

EmptyProvider ==
    [zones |-> [n \in ZoneNames |-> AbsentZone],
     records |-> {},
     containers |-> [n \in ContainerNames |-> AbsentContainer],
     instances |-> [n \in InstanceNames |-> AbsentInstance],
     databases |-> {}]

\* The account with the zone the records go to.
ProviderWithZone ==
    [EmptyProvider EXCEPT
       !.zones["example.com"] =
           [present |-> TRUE, emailAddress |-> "a@example.com",
            ttl |-> ProviderZoneDefaultTtl]]

\* The same with an MX record that was filed some other way.
ProviderWithMx ==
    [ProviderWithZone EXCEPT
       !.records = {[zone |-> "example.com", name |-> "host", type |-> "MX",
                     data |-> "1.1.1.1", ttl |-> ProviderRecordDefaultTtl,
                     priority |-> 10]}]

NoCall ==
    [fn |-> "none", args |-> <<>>, test |-> FALSE, again |-> FALSE,
     first |-> "none", pre |-> EmptyProvider, raised |-> "none",
     result |-> "none", comment |-> "", changes |-> NoChanges,
     acc |-> <<>>, calls |-> <<>>,
     fullExists |-> "-", baseExists |-> "-"]

\* A caller of the state function dns_zone_exists that has not begun: where
\* it is in the function, its arguments and what it has seen and done.
IdleCaller ==
    [pc |-> "idle", name |-> NoneStr, email_address |-> NoneStr,
     ttl |-> None, does_exist |-> "-", base_zone_exists |-> "-",
     acc |-> <<>>, calls |-> <<>>, raised |-> "none"]

\* _dns_zone_list not running: the pages the provider serves, the page its
\* paging state points at (0: none), the list gathered, the number of
\* list_next_page requests and of calls.
NoListing ==
    [pc |-> "idle", pages |-> <<>>, next |-> 0, all_zones |-> <<>>,
     fetches |-> 0, runs |-> 0]

\* An empty account (for the records, also one that has their zone), and
\* the service the run works on.
Init ==
    /\ family \in Families
    /\ provider \in IF family \in {"dns_record", "dns_record_module"}
                    THEN {EmptyProvider, ProviderWithZone, ProviderWithMx}
                    ELSE {EmptyProvider}
    /\ call = NoCall
    /\ callers = [c \in Callers |-> IdleCaller]
    /\ listing = NoListing

\* The call fn(args) ends with outcome o.  `again` marks the immediate
\* repetition of the previous call, whose result is `first`.
Conclude(fn, args, test, o, again) ==
    /\ provider' = o.p
    /\ call' = [fn |-> fn, args |-> args, test |-> test, again |-> again,
                first |-> IF again THEN call.result ELSE "none",
                pre |-> provider, raised |-> o.raised, result |-> o.result,
                comment |-> o.comment, changes |-> o.changes,
                acc |-> o.acc, calls |-> o.calls,
                fullExists |-> o.fullExists, baseExists |-> o.baseExists]
    /\ UNCHANGED <<family, callers, listing>>

\* A call as long as the zone stays within its bound of records.
Invoke(fn, args, test, o, again) ==
    /\ Cardinality(o.p.records) <= MaxRecords
    /\ Conclude(fn, args, test, o, again)

\* The outcome of a direct call of a module function with result r.
Direct(fn, r) ==
    Outcome(r.exc, "-", "", NoChanges, r.p, <<fn>>, r.calls, "-", "-")

StateDnsZoneExists ==
    /\ family = "dns_zone"
    /\ \E name \in ZoneNames, email_address \in EmailInputs,
          ttl \in ZoneTtlInputs, test \in BOOLEAN :
         Invoke("state.dns_zone_exists",
                [name |-> name, email_address |-> email_address, ttl |-> ttl],
                test,
                state_dns_zone_exists(provider, name, email_address, ttl, test),
                FALSE)

\* The same dns_zone_exists state applied a second time, nothing in between.
StateDnsZoneExistsAgain ==
    /\ family = "dns_zone"
    /\ call.fn = "state.dns_zone_exists"
    /\ ~call.again
    /\ Invoke("state.dns_zone_exists", call.args, call.test,
              state_dns_zone_exists(provider, call.args.name,
                                    call.args.email_address, call.args.ttl,
                                    call.test),
              TRUE)

StateDnsRecordExists ==
    /\ family = "dns_record"
    /\ \E name \in RecordNames, zone_name \in ZoneNames,
          record_type \in RecordTypeInputs, data \in DataInputs,
          ttl \in RecordTtlInputs, priority \in PriorityInputs,
          allow_multiple_records \in BOOLEAN, test \in BOOLEAN :
         Invoke("state.dns_record_exists",
                [name |-> name, zone_name |-> zone_name,
                 record_type |-> record_type, data |-> data, ttl |-> ttl,
                 priority |-> priority,
                 allow_multiple_records |-> allow_multiple_records],
                test,
                state_dns_record_exists(provider, name, zone_name, record_type,
                                        data, ttl, priority,
                                        allow_multiple_records, test),
                FALSE)

\* rackspace.dns_record_create called on its own.
DnsRecordCreate ==
    /\ family = "dns_record_module"
    /\ \E name \in RecordNames, zone_name \in ZoneNames,
          record_type \in RecordTypeInputs, data \in DataInputs,
          ttl \in RecordTtlInputs, priority \in PriorityInputs :
         Invoke("dns_record_create",
                [name |-> name, zone_name |-> zone_name,
                 record_type |-> record_type, data |-> data, ttl |-> ttl,
                 priority |-> priority],
                FALSE,
                Direct("dns_record_create",
                       dns_record_create(provider, name, zone_name,
                                         record_type, data, ttl, priority)),
                FALSE)

StateCfContainerExists ==
    /\ family = "cf"
    /\ \E name \in ContainerNames, cdn_enabled \in CdnInputs,
          ttl \in CdnTtlInputs, test \in BOOLEAN :
         Invoke("state.cf_container_exists",
                [name |-> name, cdn_enabled |-> cdn_enabled, ttl |-> ttl],
                test,
                state_cf_container_exists(provider, name, cdn_enabled, ttl,
                                          test),
                FALSE)

StateDbInstanceExists ==
    /\ family = "db"
    /\ \E name \in InstanceNames, flavor \in FlavorInputs,
          size \in SizeInputs, test \in BOOLEAN, active \in BOOLEAN :
         Invoke("state.db_instance_exists",
                [name |-> name, flavor |-> flavor, size |-> size],
                test,
                state_db_instance_exists(provider, name, flavor, size, test,
                                         active),
                FALSE)

StateDbDatabaseExists ==
    /\ family = "db"
    /\ \E name \in DatabaseNames, instance_name \in InstanceNames,
          test \in BOOLEAN, active \in BOOLEAN :
         Invoke("state.db_database_exists",
                [name |-> name, instance_name |-> instance_name],
                test,
                state_db_database_exists(provider, name, instance_name, test,
                                         active),
                FALSE)

\* The outcome of a direct call of one of the module's exists functions:
\* `result` is the boolean it returned.
DirectExists(fn, r) ==
    Outcome(r.exc,
            IF r.exc # "none" THEN "raised"
            ELSE IF r.ret THEN "True" ELSE "False",
            "", NoChanges, r.p, <<>>, r.calls, "-", "-")

\* rackspace.dns_zone_exists called on its own.
DnsZoneExists ==
    /\ family = "dns_zone"
    /\ \E name \in ZoneNames, email_address \in EmailInputs,
          ttl \in ZoneTtlInputs :
         LET kwargs == (IF email_address = NoneStr THEN <<>>
                        ELSE [email_address |-> email_address])
                       @@ (IF ttl = None THEN <<>> ELSE [ttl |-> ttl])
         IN Invoke("dns_zone_exists",
                   [name |-> name, email_address |-> email_address,
                    ttl |-> ttl],
                   FALSE,
                   DirectExists("dns_zone_exists",
                                Ok(provider,
                                   dns_zone_exists(provider, name, kwargs),
                                   NoCalls)),
                   FALSE)

\* rackspace.dns_record_exists called on its own.
DnsRecordExists ==
    /\ family = "dns_record_module"
    /\ \E name \in RecordNames, zone_name \in ZoneNames,
          record_type \in RecordTypeInputs, data \in DataInputs,
          ttl \in RecordTtlInputs, priority \in PriorityInputs :
         Invoke("dns_record_exists",
                [name |-> name, zone_name |-> zone_name,
                 record_type |-> record_type, data |-> data, ttl |-> ttl,
                 priority |-> priority],
                FALSE,
                DirectExists("dns_record_exists",
                             dns_record_exists(provider, name, zone_name,
                                               record_type, data, ttl,
                                               priority)),
                FALSE)

\* rackspace.cf_container_exists called on its own.
CfContainerExists ==
    /\ family = "cf"
    /\ \E name \in ContainerNames, cdn_enabled \in CdnInputs,
          ttl \in CdnTtlInputs :
         Invoke("cf_container_exists",
                [name |-> name, cdn_enabled |-> cdn_enabled, ttl |-> ttl],
                FALSE,
                DirectExists("cf_container_exists",
                             Ok(provider,
                                cf_container_exists(provider, name,
                                                    cdn_enabled, ttl),
                                NoCalls)),
                FALSE)

\* rackspace.db_instance_exists called on its own.
DbInstanceExists ==
    /\ family = "db"
    /\ \E name \in InstanceNames :
         Invoke("db_instance_exists", [name |-> name], FALSE,
                DirectExists("db_instance_exists",
                             Ok(provider, db_instance_exists(provider, name),
                                NoCalls)),
                FALSE)

\* rackspace.db_database_exists called on its own.
DbDatabaseExists ==
    /\ family = "db"
    /\ \E name \in DatabaseNames, instance_name \in InstanceNames :
         Invoke("db_database_exists",
                [name |-> name, instance_name |-> instance_name], FALSE,
                DirectExists("db_database_exists",
                             db_database_exists(provider, name,
                                                instance_name)),
                FALSE)

\* rackspace.dns_record_update called on its own.
DnsRecordUpdate ==
    /\ family = "dns_record_module"
    /\ \E name \in RecordNames, zone_name \in ZoneNames,
          record_type \in RecordTypeInputs, data \in DataInputs,
          ttl \in RecordTtlInputs, priority \in PriorityInputs :
         Invoke("dns_record_update",
                [name |-> name, zone_name |-> zone_name,
                 record_type |-> record_type, data |-> data, ttl |-> ttl,
                 priority |-> priority],
                FALSE,
                Direct("dns_record_update",
                       dns_record_update(provider, name, zone_name,
                                         record_type, data, ttl, priority)),
                FALSE)

\* rackspace.dns_record_delete called on its own.
DnsRecordDelete ==
    /\ family = "dns_record_module"
    /\ \E name \in RecordNames, zone_name \in ZoneNames,
          record_type \in RecordTypeInputs :
         Invoke("dns_record_delete",
                [name |-> name, zone_name |-> zone_name,
                 record_type |-> record_type],
                FALSE,
                Direct("dns_record_delete",
                       dns_record_delete(provider, name, zone_name,
                                         record_type)),
                FALSE)

\* The provider finishes building a database instance.
InstanceBecomesActive ==
    /\ family = "db"
    /\ \E name \in InstanceNames :
         /\ provider.instances[name].status = "BUILD"
         /\ provider' = [provider EXCEPT !.instances[name].status = "ACTIVE"]
    /\ call' = [NoCall EXCEPT !.fn = "provider", !.pre = provider]
    /\ UNCHANGED <<family, callers, listing>>

Next ==
    \/ StateDnsZoneExists
    \/ StateDnsZoneExistsAgain
    \/ StateDnsRecordExists
    \/ DnsRecordCreate
    \/ StateCfContainerExists
    \/ StateDbInstanceExists
    \/ StateDbDatabaseExists
    \/ InstanceBecomesActive
    \/ DnsZoneExists
    \/ DnsRecordExists
    \/ CfContainerExists
    \/ DbInstanceExists
    \/ DbDatabaseExists
    \/ DnsRecordUpdate
    \/ DnsRecordDelete

Spec == Init /\ [][Next]_vars

(***************************************************************************)
(* The state function dns_zone_exists, request by request, in several      *)
(* callers (minions, or runs of one minion) that work on one account.      *)
(* Each module function called makes one request to the provider; between *)
(* two of them the other callers may act.                                  *)
(***************************************************************************)
InitRace ==
    /\ family = "dns_zone"
    /\ provider = EmptyProvider
    /\ call = NoCall
    /\ callers = [c \in Callers |-> IdleCaller]
    /\ listing = NoListing

\* The caller steps to `next`; the provider becomes p.
CallerStep(c, p, next) ==
    /\ callers' = [callers EXCEPT ![c] = next]
    /\ provider' = p
    /\ UNCHANGED <<family, call, listing>>

\* The call begins (not a dry run): the full-filter check.
ZoneFullCheck(c) ==
    /\ callers[c].pc = "idle"
    /\ \E name \in ZoneNames, email_address \in Emails,
          ttl \in RaceTtlInputs :
         LET does_exist ==
                 dns_zone_exists(provider, name,
                                 [email_address |-> email_address,
                                  ttl |-> ttl])
         IN CallerStep(c, provider,
                       [callers[c] EXCEPT
                          !.name = name,
                          !.email_address = email_address,
                          !.ttl = ttl,
                          !.does_exist = IF does_exist THEN "True"
                                         ELSE "False",
                          !.pc = IF does_exist THEN "done"
                                 ELSE "base_check"])

\* The name-only check.
ZoneBaseCheck(c) ==
    /\ callers[c].pc = "base_check"
    /\ LET base_zone_exists ==
               dns_zone_exists(provider, callers[c].name, <<>>)
       IN CallerStep(c, provider,
                     [callers[c] EXCEPT
                        !.base_zone_exists = IF base_zone_exists THEN "True"
                                             ELSE "False",
                        !.pc = IF base_zone_exists THEN "update"
                               ELSE "create"])

\* A create step that looks again and leaves out the create call when the
\* zone has appeared since the checks.
ZoneCreateIfStillAbsent(c) ==
    /\ callers[c].pc = "create"
    /\ IF provider.zones[callers[c].name].present
       THEN CallerStep(c, provider, [callers[c] EXCEPT !.pc = "done"])
       ELSE LET r == dns_zone_create(provider, callers[c].name,
                                     callers[c].email_address,
                                     callers[c].ttl)
            IN CallerStep(c, r.p,
                          [callers[c] EXCEPT
                             !.acc = <<"dns_zone_create">>,
                             !.calls = r.calls,
                             !.raised = r.exc,
                             !.pc = "done"])

\* rackspace.dns_zone_create, called on the strength of the two checks.
ZoneCreate(c) ==
    /\ callers[c].pc = "create"
    /\ LET r == dns_zone_create(provider, callers[c].name,
                                callers[c].email_address, callers[c].ttl)
       IN CallerStep(c, r.p,
                     [callers[c] EXCEPT
                        !.acc = <<"dns_zone_create">>,
                        !.calls = r.calls,
                        !.raised = r.exc,
                        !.pc = "done"])

\* rackspace.dns_zone_update.
ZoneUpdate(c) ==
    /\ callers[c].pc = "update"
    /\ LET r == dns_zone_update(provider, callers[c].name,
                                [email_address |-> callers[c].email_address,
                                 ttl |-> callers[c].ttl])
       IN CallerStep(c, r.p,
                     [callers[c] EXCEPT
                        !.acc = <<"dns_zone_update">>,
                        !.calls = r.calls,
                        !.raised = r.exc,
                        !.pc = "done"])

NextRace ==
    \E c \in Callers :
       \/ ZoneFullCheck(c)
       \/ ZoneBaseCheck(c)
       \/ ZoneCreate(c)
       \/ ZoneUpdate(c)

SpecRace == InitRace /\ [][NextRace]_vars

(***************************************************************************)
(* _dns_zone_list, request by request                                      *)
(***************************************************************************)
\* The number of zones on the pages before page k, for the page lengths
\* `layout`.
RECURSIVE ZonesBefore(_, _)
ZonesBefore(layout, k) ==
    IF k = 1 THEN 0 ELSE ZonesBefore(layout, k - 1) + layout[k - 1]

\* The pages of an account whose zones are numbered in listing order.
PagesOf(layout) ==
    [k \in 1 .. Len(layout) |->
        [i \in 1 .. layout[k] |-> ZonesBefore(layout, k) + i]]

\* An account without zones (one empty page), or up to MaxPages pages.
PageLayouts ==
    {<<0>>} \cup UNION {[1 .. n -> 1 .. MaxPageLen] : n \in 1 .. MaxPages}

\* The zones of the first k pages, in page order.
RECURSIVE AllPages(_, _)
AllPages(pages, k) ==
    IF k = 0 THEN <<>> ELSE AllPages(pages, k - 1) \o pages[k]

\* driver.list(limit=): the first page; the paging state is set anew.
driver_list(pages, limit) ==
    [exc |-> "none", ret |-> pages[1],
     next |-> IF Len(pages) > 1 THEN 2 ELSE 0]

\* driver.list_next_page(): the page the paging state points at, or
\* NoMoreResults when there is none.
list_next_page(pages, next) ==
    IF next = 0
    THEN [exc |-> "NoMoreResults", ret |-> <<>>, next |-> 0]
    ELSE [exc |-> "none", ret |-> pages[next],
          next |-> IF next < Len(pages) THEN next + 1 ELSE 0]

InitList ==
    /\ family = "dns_zone"
    /\ provider = EmptyProvider
    /\ call = NoCall
    /\ callers = [c \in Callers |-> IdleCaller]
    /\ \E layout \in PageLayouts :
         /\ \A k \in 1 .. Len(layout) : layout[k] <= PAGE_SIZE
         /\ listing = [NoListing EXCEPT !.pages = PagesOf(layout)]

\* _dns_zone_list is called (again): all_zones = driver.list(limit=PAGE_SIZE).
ZoneListCall ==
    /\ listing.pc \in {"idle", "done", "failed"}
    /\ listing.runs < MaxListCalls
    /\ LET r == driver_list(listing.pages, PAGE_SIZE)
       IN listing' = [listing EXCEPT
                        !.pc = "loop", !.all_zones = r.ret, !.next = r.next,
                        !.fetches = 0, !.runs = @ + 1]
    /\ UNCHANGED <<family, provider, call, callers>>

\* A loop that asks for a following page once only.
ZoneListNextPageOnce ==
    /\ listing.pc = "loop"
    /\ LET r == list_next_page(listing.pages, listing.next)
       IN listing' = [listing EXCEPT
                        !.pc = "done",
                        !.all_zones = IF r.exc = "NoMoreResults" THEN @
                                      ELSE @ \o r.ret,
                        !.next = r.next, !.fetches = @ + 1]
    /\ UNCHANGED <<family, provider, call, callers>>

\* One turn of the loop: all_zones += driver.list_next_page(), or the
\* break on NoMoreResults and the return.
ZoneListNextPage ==
    /\ listing.pc = "loop"
    /\ LET r == list_next_page(listing.pages, listing.next)
       IN listing' = IF r.exc = "NoMoreResults"
                     THEN [listing EXCEPT !.pc = "done", !.fetches = @ + 1]
                     ELSE [listing EXCEPT
                             !.all_zones = @ \o r.ret, !.next = r.next,
                             !.fetches = @ + 1]
    /\ UNCHANGED <<family, provider, call, callers>>

\* A request for a following page fails otherwise: the exception leaves
\* _dns_zone_list, the driver's paging state stays where it was.
ZoneListFails ==
    /\ listing.pc = "loop"
    /\ listing' = [listing EXCEPT !.pc = "failed", !.fetches = @ + 1]
    /\ UNCHANGED <<family, provider, call, callers>>

NextList ==
    \/ ZoneListCall
    \/ ZoneListNextPage
    \/ ZoneListFails

SpecList == InitList /\ [][NextList]_vars

\* The loop runs on: it is straight-line code between two requests.
SpecListFair == SpecList /\ WF_vars(ZoneListNextPage)

(***************************************************************************)
(* The state function dns_record_exists applied over and over to one       *)
(* desired record, nothing else writing to the account                     *)
(***************************************************************************)
\* An A record of the zone as some earlier run or other tool left it.
ARecord(data, ttl) ==
    [zone |-> "example.com", name |-> "host", type |-> "A", data |-> data,
     ttl |-> ttl, priority |-> None]

\* The accounts the runs start from: no zone; the zone with, for each data
\* value, no A record or one of ttl 300 or 600; the zone with an MX
\* record; the zone with an SRV record.
EnsureProviders ==
    {EmptyProvider, ProviderWithMx,
     [ProviderWithZone EXCEPT
        !.records = {[zone |-> "example.com", name |-> "host",
                      type |-> "SRV", data |-> "1.1.1.1",
                      ttl |-> ProviderRecordDefaultTtl, priority |-> 10]}]}
    \cup {[ProviderWithZone EXCEPT
             !.records = {ARecord(d, ttls[d]) : d \in present}] :
           present \in SUBSET DataInputs,
           ttls \in [DataInputs -> {300, 600}]}

\* The desired record is fixed at the start (it is kept in call.args).
InitEnsure ==
    /\ family = "dns_record"
    /\ provider \in EnsureProviders
    /\ \E name \in RecordNames, zone_name \in ZoneNames,
          record_type \in RecordTypeInputs, data \in DataInputs,
          ttl \in RecordTtlInputs, priority \in PriorityInputs,
          allow_multiple_records \in BOOLEAN :
         call = [NoCall EXCEPT
                   !.args = [name |-> name, zone_name |-> zone_name,
                             record_type |-> record_type, data |-> data,
                             ttl |-> ttl, priority |-> priority,
                             allow_multiple_records |->
                                 allow_multiple_records]]
    /\ callers = [c \in Callers |-> IdleCaller]
    /\ listing = NoListing

\* The state function is applied (again) to the desired record, not as a
\* dry run.
RecordEnsure ==
    /\ family = "dns_record"
    /\ Conclude("state.dns_record_exists", call.args, FALSE,
                state_dns_record_exists(provider, call.args.name,
                                        call.args.zone_name,
                                        call.args.record_type,
                                        call.args.data, call.args.ttl,
                                        call.args.priority,
                                        call.args.allow_multiple_records,
                                        FALSE),
                call.fn # "none")

NextEnsure == RecordEnsure

SpecEnsure == InitEnsure /\ [][NextEnsure]_vars

\* The call is repeated for as long as it changes anything.
SpecEnsureFair == SpecEnsure /\ WF_vars(RecordEnsure)

(***************************************************************************)
(* Properties                                                              *)
(***************************************************************************)
StateFunctions ==
    {"state.dns_zone_exists", "state.dns_record_exists",
     "state.cf_container_exists", "state.db_instance_exists",
     "state.db_database_exists"}

CreateAccessors ==
    {"dns_zone_create", "dns_record_create", "cf_container_create",
     "db_instance_create", "db_database_create"}

UpdateAccessors ==
    {"dns_zone_update", "dns_record_update", "cf_container_update"}

\* The last call was fn, not a dry run.
Applied(fn) == call.fn = fn /\ ~call.test

\* The records of the zone with the name and (upper-cased) type of the call.
SameNameAndType(p) ==
    {r \in p.records :
        /\ r.zone = call.args.zone_name
        /\ r.name = call.args.name
        /\ r.type = Upper(call.args.record_type)}

\* C1: after a non-dry-run state dns_record_exists call returned result
\* True, the provider holds a record with the desired name, type and data
\* that carries the desired ttl and priority wherever they are given, and
\* the module's full-filter dns_record_exists check answers True.
C1_RecordMatchesDesired ==
    (Applied("state.dns_record_exists") /\ call.raised = "none"
       /\ call.result = "True")
    => /\ \E r \in SameNameAndType(provider) :
            /\ r.data = call.args.data
            /\ (call.args.ttl # None => r.ttl = call.args.ttl)
            /\ (call.args.priority # None /\ r.type \in ProviderPriorityTypes
                  => r.priority = call.args.priority)
       /\ dns_record_exists(provider, call.args.name, call.args.zone_name,
                            call.args.record_type, call.args.data,
                            call.args.ttl, call.args.priority).ret = TRUE

\* C2: when a non-dry-run state dns_zone_exists call returned result True
\* and is repeated at once with the same arguments, the second call returns
\* result True with no changes and makes no create and no update call.
C2_ZoneEnsureIdempotent ==
    (Applied("state.dns_zone_exists") /\ call.again /\ call.first = "True")
    => /\ call.raised = "none"
       /\ call.result = "True"
       /\ DOMAIN call.changes = {}
       /\ call.acc = <<>>
       /\ call.calls = <<>>

\* C3: a state function called with the test flag set whose full-filter
\* existence check answers False returns result None with no changes, makes
\* no mutating accessor or provider call and leaves the provider as it was.
C3_DryRunPurity ==
    (call.fn \in StateFunctions /\ call.test /\ call.fullExists = "False")
    => /\ call.raised = "none"
       /\ call.result = "None"
       /\ DOMAIN call.changes = {}
       /\ call.acc = <<>>
       /\ call.calls = <<>>
       /\ provider = call.pre

\* A dry run of dns_zone_exists on a zone that is there with another ttl.
C3_Witness ==
    /\ call.fn = "state.dns_zone_exists"
    /\ call.test
    /\ call.fullExists = "False"
    /\ call.pre.zones[call.args.name].present
    /\ call.args.ttl = 900
    /\ call.result = "None"

ZoneBefore == call.pre.zones[call.args.name]

\* The zone is there and a field given in desired differs from it.
ZoneDiffers ==
    /\ ZoneBefore.present
    /\ \/ call.args.ttl # None /\ call.args.ttl # ZoneBefore.ttl
       \/ /\ call.args.email_address # NoneStr
          /\ call.args.email_address # ZoneBefore.emailAddress

\* Exactly one create, reported under changes.new with the desired ttl.
ZoneCreatedOnly ==
    /\ call.raised = "none"
    /\ call.acc = <<"dns_zone_create">>
    /\ call.calls = <<"driver.create">>
    /\ DOMAIN call.changes = {"new"}
    /\ (call.args.ttl # None => call.changes.new.ttl = call.args.ttl)

\* Exactly one update, reported under changes.updated with the desired ttl.
ZoneUpdatedOnly ==
    /\ call.raised = "none"
    /\ call.acc = <<"dns_zone_update">>
    /\ call.calls = <<"zone.update">>
    /\ DOMAIN call.changes = {"updated"}
    /\ call.changes.updated.ttl = call.args.ttl

\* C4 as stated: a non-dry-run state dns_zone_exists call (ttl and email
\* address given) makes exactly one create call, reported under changes.new
\* with the desired ttl, on an absent zone, and exactly one update call,
\* reported under changes.updated with the desired ttl, on a present zone
\* whose ttl or email differs.
C4_AsStated ==
    (/\ Applied("state.dns_zone_exists")
     /\ call.args.ttl # None /\ call.args.email_address # NoneStr)
    => /\ ~ZoneBefore.present => ZoneCreatedOnly
       /\ ZoneDiffers => ZoneUpdatedOnly

\* C4, amended: the same for a desired state whose ttl is given and at
\* least MINIMUM_TTL and which, for an absent zone, names an email address.
C4_ZoneCreateOrUpdate ==
    (/\ Applied("state.dns_zone_exists")
     /\ call.args.ttl # None /\ call.args.ttl >= MINIMUM_TTL
     /\ (~ZoneBefore.present => call.args.email_address # NoneStr))
    => /\ ~ZoneBefore.present => ZoneCreatedOnly
       /\ ZoneDiffers => ZoneUpdatedOnly

\* The zone was there with ttl 600 and the call, asking for 900, updated it.
C4_Witness ==
    /\ Applied("state.dns_zone_exists")
    /\ ZoneBefore.present /\ ZoneBefore.ttl = 600
    /\ call.args.ttl = 900
    /\ ZoneUpdatedOnly
    /\ provider.zones[call.args.name].ttl = 900

\* C5: with exactly one record of the desired name and type, of other data,
\* a non-dry-run state dns_record_exists call for a well-formed record (a
\* priority given where the kind bears one) overwrites that record's data
\* when allow_multiple_records is false, one record remaining, and adds a
\* second record beside it when the flag is true.
C5_MultiplicityDisambiguation ==
    (/\ Applied("state.dns_record_exists")
     /\ Cardinality(SameNameAndType(call.pre)) = 1
     /\ \A r \in SameNameAndType(call.pre) : r.data # call.args.data
     /\ (Upper(call.args.record_type) \in ProviderPriorityTypes
           => call.args.priority # None))
    => /\ call.raised = "none"
       /\ ~call.args.allow_multiple_records
            => /\ Cardinality(SameNameAndType(provider)) = 1
               /\ \A r \in SameNameAndType(provider) : r.data = call.args.data
       /\ call.args.allow_multiple_records
            => /\ Cardinality(SameNameAndType(provider)) = 2
               /\ SameNameAndType(call.pre) \subseteq SameNameAndType(provider)
               /\ \E r \in SameNameAndType(provider) : r.data = call.args.data

\* C6: a non-dry-run zone ensure (email address given) with a ttl below 300
\* fails validation, with no mutating provider call made and the provider
\* left as it was.
C6_ZoneTtlFloor ==
    (/\ Applied("state.dns_zone_exists")
     /\ call.args.email_address # NoneStr
     /\ call.args.ttl # None /\ call.args.ttl < 300)
    => /\ call.raised = "ValueError"
       /\ call.calls = <<>>
       /\ provider = call.pre

\* C7: dns_record_create for a priority-bearing kind (MX, SRV, in any letter
\* case) without priority, on a zone that is there, fails with an argument
\* error before any provider call and adds no record.
C7_PriorityRequired ==
    (/\ call.fn = "dns_record_create"
     /\ call.pre.zones[call.args.zone_name].present
     /\ Upper(call.args.record_type) \in {"MX", "SRV"}
     /\ call.args.priority = None)
    => /\ call.raised \in {"ValueError", "TypeError"}
       /\ call.calls = <<>>
       /\ provider.records = call.pre.records

\* C8: in every outcome a state function returns, changes never holds both
\* new and updated; result None comes with empty changes and no mutating
\* call; the already-matching path gives result True and empty changes; a
\* successful create gives exactly changes.new and a successful update
\* exactly changes.updated.
C8_OutcomeEnvelope ==
    (call.fn \in StateFunctions /\ call.raised = "none")
    => /\ Cardinality(DOMAIN call.changes) <= 1
       /\ call.result = "None"
            => DOMAIN call.changes = {} /\ call.acc = <<>> /\ call.calls = <<>>
       /\ call.fullExists = "True"
            => call.result = "True" /\ DOMAIN call.changes = {}
       /\ (call.result = "True" /\ call.acc # <<>>)
            => /\ Len(call.acc) = 1
               /\ call.acc[1] \in CreateAccessors
                    => DOMAIN call.changes = {"new"}
               /\ call.acc[1] \in UpdateAccessors
                    => DOMAIN call.changes = {"updated"}
       /\ DOMAIN call.changes # {}
            => call.result = "True" /\ call.acc # <<>>

\* dns_record_exists returned after a successful update.
C8_Witness ==
    /\ Applied("state.dns_record_exists")
    /\ call.raised = "none"
    /\ call.result = "True"
    /\ call.acc = <<"dns_record_update">>
    /\ DOMAIN call.changes = {"updated"}

\* C9: when the create or update accessor call of a state function fails
\* (the accessor was called and nothing is recorded under changes), the
\* state function returns result False, and does not raise.
C9_FailuresReported ==
    (/\ call.fn \in StateFunctions
     /\ call.acc # <<>>
     /\ DOMAIN call.changes = {})
    => call.raised = "none" /\ call.result = "False"

\* C10: on the update path with a desired field omitted (zone: ttl or
\* email_address; container: cdn_enabled, ttl being given) the update
\* succeeds and the omitted field keeps the value the provider had.
C10_OmittedFieldsKept ==
    /\ (/\ Applied("state.dns_zone_exists")
        /\ call.acc = <<"dns_zone_update">>
        /\ (call.args.ttl = None \/ call.args.email_address = NoneStr))
       => /\ call.raised = "none"
          /\ call.result = "True"
          /\ call.args.ttl = None
               => provider.zones[call.args.name].ttl = ZoneBefore.ttl
          /\ call.args.email_address = NoneStr
               => provider.zones[call.args.name].emailAddress
                    = ZoneBefore.emailAddress
    /\ (/\ Applied("state.cf_container_exists")
        /\ call.acc = <<"cf_container_update">>
        /\ call.args.cdn_enabled = NoneStr /\ call.args.ttl # None)
       => /\ call.raised = "none"
          /\ call.result = "True"
          /\ provider.containers[call.args.name].cdn_enabled
               = call.pre.containers[call.args.name].cdn_enabled

ModuleExistsFunctions ==
    {"dns_zone_exists", "dns_record_exists", "cf_container_exists",
     "db_instance_exists", "db_database_exists"}

\* The resource a direct exists call names, or what contains it (the zone
\* of a record, the instance of a database), was absent before the call.
\* For a record the type is one the lookup accepts.
NamedResourceAbsent ==
    CASE call.fn = "dns_zone_exists" ->
           ~call.pre.zones[call.args.name].present
      [] call.fn = "dns_record_exists" ->
           \/ ~call.pre.zones[call.args.zone_name].present
           \/ /\ _dns_is_valid_record_type(call.args.record_type)
              /\ \A r \in SameNameAndType(call.pre) :
                    r.data # call.args.data
      [] call.fn = "cf_container_exists" ->
           ~call.pre.containers[call.args.name].present
      [] call.fn = "db_instance_exists" ->
           ~call.pre.instances[call.args.name].present
      [] call.fn = "db_database_exists" ->
           \/ ~call.pre.instances[call.args.instance_name].present
           \/ /\ call.pre.instances[call.args.instance_name].status = "ACTIVE"
              /\ <<call.args.instance_name, call.args.name>>
                    \notin call.pre.databases
      [] OTHER -> FALSE

\* C11: a module-level exists function called for a resource that is
\* absent, or whose zone or database instance is absent, returns False and
\* raises nothing.
C11_AbsentMeansFalse ==
    (call.fn \in ModuleExistsFunctions /\ NamedResourceAbsent)
    => (call.raised = "none" /\ call.result = "False")

\* The record types the module documents as valid.
DocumentedRecordTypes ==
    {"A", "AAAA", "CNAME", "MX", "NS", "PTR", "SRV", "TXT"}

\* C12: _dns_is_valid_record_type answers True exactly for the types whose
\* upper-case form is one of the eight documented ones; dns_record_create
\* raises the invalid-type error exactly for the others, and then before
\* any record is added.
C12_RecordTypeValidation ==
    call.fn = "dns_record_create"
    => LET documented ==
               Upper(call.args.record_type) \in DocumentedRecordTypes
       IN /\ _dns_is_valid_record_type(call.args.record_type) <=> documented
          /\ (call.raised = "TypeError") <=> ~documented
          /\ ~documented => (call.calls = <<>> /\ provider = call.pre)

\* C13: a non-dry-run state db_instance_exists call for an instance that is
\* present under the name with another flavor or volume size than desired
\* updates the instance to the desired flavor and size and reports it under
\* changes.updated.
C13_InstanceDriftUpdated ==
    LET before == call.pre.instances[call.args.name]
        after == provider.instances[call.args.name]
    IN (Applied("state.db_instance_exists") /\ before.present
          /\ (before.flavor # call.args.flavor
                \/ before.volume # call.args.size))
       => /\ call.raised = "none"
          /\ DOMAIN call.changes = {"updated"}
          /\ after.flavor = call.args.flavor
          /\ after.volume = call.args.size

\* The records that had the desired name, type and data before the call.
DesiredDataBefore ==
    {r \in SameNameAndType(call.pre) : r.data = call.args.data}

\* C14: when a record with the desired name, type and data exists and only
\* its ttl or priority differs from desired, a non-dry-run state
\* dns_record_exists call updates that record to the desired ttl and
\* priority, with or without allow_multiple_records and with or without
\* sibling records of other data; no other record changes and none is
\* created.
C14_UpdateTargetsDataMatch ==
    (Applied("state.dns_record_exists") /\ DesiredDataBefore # {}
       /\ call.fullExists = "False")
    => /\ call.raised = "none"
       /\ call.acc = <<"dns_record_update">>
       /\ provider.records \ SameNameAndType(provider)
            = call.pre.records \ SameNameAndType(call.pre)
       /\ {r \in SameNameAndType(provider) : r.data # call.args.data}
            = SameNameAndType(call.pre) \ DesiredDataBefore
       /\ \E r \in SameNameAndType(provider) :
             /\ r.data = call.args.data
             /\ Truthy(call.args.ttl) => r.ttl = call.args.ttl
             /\ (Truthy(call.args.priority)
                   /\ r.type \in ProviderPriorityTypes)
                => r.priority = call.args.priority
       /\ Cardinality(provider.records) = Cardinality(call.pre.records)

\* The last call went through rackspace.dns_record_update: called on its
\* own, or as the one accessor call of the state function.
ThroughRecordUpdate ==
    \/ call.fn = "dns_record_update"
    \/ (call.fn = "state.dns_record_exists"
          /\ call.acc = <<"dns_record_update">>)

SawAbsentTwice(c) ==
    callers[c].does_exist = "False" /\ callers[c].base_zone_exists = "False"

\* C16: nothing between the existence checks and the create call of the
\* state function dns_zone_exists looks at the zone again or holds a lock.
\* Every caller that saw the zone absent in both checks issues the create
\* request, whatever the other callers did meanwhile; so two callers that
\* both saw it absent both issue one (the state C16_Witness).
C16_CheckThenActRace ==
    \A c \in Callers :
       (callers[c].pc = "done" /\ SawAbsentTwice(c))
       => /\ callers[c].acc = <<"dns_zone_create">>
          /\ callers[c].calls = <<"driver.create">>

\* Two callers, the same absent zone: both saw it absent in both checks and
\* both issued the create request.
C16_Witness ==
    \E c, d \in Callers :
       /\ c # d
       /\ callers[c].name = callers[d].name
       /\ callers[c].pc = "done" /\ callers[d].pc = "done"
       /\ SawAbsentTwice(c) /\ SawAbsentTwice(d)
       /\ callers[c].calls = <<"driver.create">>
       /\ callers[d].calls = <<"driver.create">>

\* C17: whatever the number of pages, a call of _dns_zone_list that is not
\* cut short by a provider failure comes to its return; it returns after
\* exactly as many list_next_page requests as there are pages (the last one
\* answered NoMoreResults) with the zones of all pages, each once, in page
\* order; and so does a call made after an earlier one, completed or
\* failed half way.
C17_ListExhaustsPages ==
    /\ [](listing.pc = "done"
            => /\ listing.all_zones
                    = AllPages(listing.pages, Len(listing.pages))
               /\ listing.fetches = Len(listing.pages)
               /\ listing.next = 0)
    /\ (listing.pc = "loop") ~> (listing.pc \in {"done", "failed"})

\* A second call over three pages has returned.
C17_Witness ==
    /\ listing.pc = "done"
    /\ listing.runs = 2
    /\ Len(listing.pages) = 3
    /\ Len(listing.all_zones) > Len(listing.pages[1])

\* C18: a non-dry-run state cf_container_exists call with cdn_enabled true
\* for an absent container ends, through cf_container_create, with the
\* container created and public and returns result True with the
\* container's dictionary, cdn_enabled true, under changes.new.
C18_CreatePublicReturnsDict ==
    (Applied("state.cf_container_exists")
       /\ ~call.pre.containers[call.args.name].present
       /\ call.args.cdn_enabled = "True")
    => /\ provider.containers[call.args.name].present
       /\ provider.containers[call.args.name].cdn_enabled = "True"
       /\ call.raised = "none"
       /\ call.result = "True"
       /\ DOMAIN call.changes = {"new"}
       /\ call.changes.new.cdn_enabled = "True"

\* C19: dns_record_delete called for a zone that holds a record of the
\* given name and (accepted) record type removes that record and returns
\* True.
C19_RecordDeleteRemoves ==
    (call.fn = "dns_record_delete"
       /\ _dns_is_valid_record_type(call.args.record_type)
       /\ SameNameAndType(call.pre) # {})
    => /\ call.raised = "none"
       /\ SameNameAndType(provider) # SameNameAndType(call.pre)
       /\ provider.records \subseteq call.pre.records

\* C20: db_instance_create refuses every volume size that is not less than
\* MAX_DB_VOLUME_SIZE with a ValueError before any provider call, and the
\* state db_instance_exists, not a dry run, called for an absent instance
\* with such a size returns result False with empty changes.
C20_VolumeSizeBound ==
    (Applied("state.db_instance_exists")
       /\ ~call.pre.instances[call.args.name].present
       /\ call.args.size >= MAX_DB_VOLUME_SIZE)
    => /\ call.raised = "none"
       /\ call.result = "False"
       /\ call.changes = NoChanges
       /\ call.calls = <<>>
       /\ provider = call.pre

\* The last call of the state function returned result True with empty
\* changes and left the account as it was.
EnsureConverged ==
    /\ call.fn = "state.dns_record_exists"
    /\ call.raised = "none"
    /\ call.result = "True"
    /\ call.changes = NoChanges
    /\ provider = call.pre

\* The zone of the desired record exists, its type is one of the
\* documented ones, and a priority is given where the type bears one.
EnsureWellPosed ==
    /\ provider.zones[call.args.zone_name].present
    /\ Upper(call.args.record_type) \in DocumentedRecordTypes
    /\ Upper(call.args.record_type) \in ProviderPriorityTypes
         => call.args.priority # None

\* C21: starting in any account that has the zone, the non-dry-run state
\* dns_record_exists call repeated for one well-posed desired record and
\* nothing else writing never ends in a raised error, and from some call on
\* every call returns result True with empty changes and changes nothing.
C21_RecordEnsureConverges ==
    EnsureWellPosed
    => /\ [](call.raised = "none")
       /\ <>[]EnsureConverged

====
